---- MODULE Spec2Model ----
(***************************************************************************)
(* A model of the execution engine of ForthInterpreter                     *)
(* (src/src/lib.rs, src/src/entities/simple/literal.rs): the Literal value *)
(* model, the operand stack, the native primitives and the variable store. *)
(*                                                                         *)
(* An Integer payload is the i64 in its little-endian two's complement     *)
(* bytes (i64::to_le_bytes), a sequence of 8 values in 0..255, so that the *)
(* full 64-bit width is kept.  Exact (mathematical) results are computed   *)
(* on 16 bytes and narrowed the way the machine narrows them.  A String    *)
(* payload and a Variable name are sequences of UTF-8 bytes.               *)
(***************************************************************************)
EXTENDS Integers, Sequences, FiniteSets, TLC

(***************************************************************************)
(* Two's complement byte arithmetic.                                       *)
(***************************************************************************)

\* Number of bytes of an IntegerType (i64).
IntBytes == 8

\* Number of bytes in which a sum, difference or product of two i64 is exact.
WideBytes == 2 * IntBytes

\* A byte holds 0 .. ByteBase-1.
ByteBase == 256

\* The sign bit of the top byte.
SignBit == 128

\* The least number of bytes that hold the int n (|n| < 2^31) is at most 4;
\* FromInt writes n as i64 bytes.  n % ByteBase^k is non-negative in TLA+.
FromInt(n) ==
    [k \in 1..IntBytes |->
        IF k <= 3 THEN (n \div (ByteBase ^ (k - 1))) % ByteBase
        ELSE IF k = 4 THEN ((n \div (ByteBase ^ 3)) % ByteBase)
        ELSE IF n < 0 THEN ByteBase - 1 ELSE 0]

IsNeg(x) == x[Len(x)] >= SignBit

\* Sign extension of i64 bytes to WideBytes bytes, and the truncation back.
Widen(x) == x \o [k \in 1..(WideBytes - Len(x)) |-> IF IsNeg(x) THEN ByteBase - 1 ELSE 0]

Narrow(w) == SubSeq(w, 1, IntBytes)

\* The wide value is representable as an i64.
Fits64(w) == Widen(Narrow(w)) = w

\* x + y + c from byte k upward, modulo ByteBase^Len(x).
RECURSIVE AddFrom(_, _, _, _)
AddFrom(x, y, k, c) ==
    IF k > Len(x) THEN <<>>
    ELSE LET s == x[k] + y[k] + c
         IN  <<s % ByteBase>> \o AddFrom(x, y, k + 1, s \div ByteBase)

NotW(x) == [k \in 1..Len(x) |-> (ByteBase - 1) - x[k]]

ZeroW(n) == [k \in 1..n |-> 0]

AddW(x, y) == AddFrom(x, y, 1, 0)

SubW(x, y) == AddFrom(x, NotW(y), 1, 1)

NegW(x) == AddFrom(NotW(x), ZeroW(Len(x)), 1, 1)

\* Sum of x[i] * y[k + 1 - i] for i in i..k.
RECURSIVE ColSum(_, _, _, _)
ColSum(x, y, k, i) ==
    IF i > k THEN 0 ELSE x[i] * y[k + 1 - i] + ColSum(x, y, k, i + 1)

\* x * y from byte k upward, modulo ByteBase^Len(x).
RECURSIVE MulFrom(_, _, _, _)
MulFrom(x, y, k, c) ==
    IF k > Len(x) THEN <<>>
    ELSE LET s == ColSum(x, y, k, 1) + c
         IN  <<s % ByteBase>> \o MulFrom(x, y, k + 1, s \div ByteBase)

MulW(x, y) == MulFrom(x, y, 1, 0)

\* Unsigned comparison from byte k downward: -1, 0 or 1.
RECURSIVE CmpFrom(_, _, _)
CmpFrom(x, y, k) ==
    IF k = 0 THEN 0
    ELSE IF x[k] < y[k] THEN -1
    ELSE IF x[k] > y[k] THEN 1
    ELSE CmpFrom(x, y, k - 1)

CmpU(x, y) == CmpFrom(x, y, Len(x))

\* Signed comparison of two values of the same width.
CmpS(x, y) ==
    IF IsNeg(x) # IsNeg(y) THEN (IF IsNeg(x) THEN -1 ELSE 1) ELSE CmpU(x, y)

\* Bit i (0 is the lowest) of x.
BitOf(x, i) == (x[(i \div 8) + 1] \div (2 ^ (i % 8))) % 2

\* Restoring long division of the unsigned a by the unsigned d # 0, one byte of
\* quotient: the n bits of a from bit i downward are brought down into the
\* remainder r; q is the quotient byte so far.  <<quotient byte, remainder>>.
RECURSIVE DivBits(_, _, _, _, _, _)
DivBits(a, d, i, n, q, r) ==
    IF n = 0 THEN <<q, r>>
    ELSE LET r2 == AddFrom(r, r, 1, BitOf(a, i))
         IN  IF CmpU(r2, d) >= 0
             THEN DivBits(a, d, i - 1, n - 1, 2 * q + 1, SubW(r2, d))
             ELSE DivBits(a, d, i - 1, n - 1, 2 * q, r2)

\* The quotient bytes k, k-1, .. 1 (highest first) of a by d, r the remainder
\* left by the bytes above k.
RECURSIVE DivFrom(_, _, _, _)
DivFrom(a, d, k, r) ==
    IF k = 0 THEN <<>>
    ELSE IF a[k] = 0 /\ r = ZeroW(Len(r)) THEN <<0>> \o DivFrom(a, d, k - 1, r)
    ELSE LET s == DivBits(a, d, 8 * k - 1, 8, 0, r)
         IN  <<s[1]>> \o DivFrom(a, d, k - 1, s[2])

Reverse(x) == [k \in 1..Len(x) |-> x[Len(x) + 1 - k]]

\* Unsigned quotient of a by d # 0.
DivU(a, d) == Reverse(DivFrom(a, d, Len(a), ZeroW(Len(a))))

\* The magnitude of the signed x as an unsigned value of the same width
\* (i64::unsigned_abs).
AbsU(x) == IF IsNeg(x) THEN NegW(x) ELSE x

\* The quotient of the i64 a by the i64 d # 0, truncated toward zero (Rust's /
\* on integers), exact on WideBytes bytes.
TruncDivW(a, d) ==
    LET q == DivU(AbsU(a), AbsU(d)) \o ZeroW(WideBytes - Len(a))
    IN  IF IsNeg(a) # IsNeg(d) THEN NegW(q) ELSE q

(***************************************************************************)
(* The value model: Literal (literal.rs).                                  *)
(***************************************************************************)

Integer(i) == [tag |-> "Integer", i |-> i]

String(s) == [tag |-> "String", s |-> s]

\* Literal::Pointer(Pointer { address, offset }); both fields are usize.
Pointer(address, offset) == [tag |-> "Pointer", address |-> address, offset |-> offset]

Array(arr) == [tag |-> "Array", arr |-> arr]

Unknown == [tag |-> "Unknown"]

\* impl From<i64> for Literal, applied to an int that fits four bytes.
IntLit(n) == Integer(FromInt(n))

\* Ordering of two usize / two u8, as an Option<Ordering>.
CmpNat(m, n) == IF m < n THEN "Less" ELSE IF m > n THEN "Greater" ELSE "Equal"

\* Lexicographic comparison of two byte strings from position k
\* (impl Ord for str: bytewise, then by length).
RECURSIVE CmpStrFrom(_, _, _)
CmpStrFrom(s, t, k) ==
    IF k > Len(s) \/ k > Len(t) THEN CmpNat(Len(s), Len(t))
    ELSE IF s[k] # t[k] THEN CmpNat(s[k], t[k])
    ELSE CmpStrFrom(s, t, k + 1)

\* #[derive(PartialOrd)] on struct Pointer: address first, then offset.
CmpPointer(p, q) ==
    IF p.address # q.address THEN CmpNat(p.address, q.address)
    ELSE CmpNat(p.offset, q.offset)

\* impl PartialEq for Literal: eq.
RECURSIVE LitEq(_, _)
LitEq(a, b) ==
    CASE a.tag = "Integer" -> IF b.tag = "Integer" THEN a.i = b.i ELSE FALSE
      [] a.tag = "Pointer" ->
            IF b.tag = "Pointer"
            THEN a.address = b.address /\ a.offset = b.offset
            ELSE FALSE
      [] a.tag = "String"  -> IF b.tag = "String" THEN a.s = b.s ELSE FALSE
      [] a.tag = "Array"   ->
            IF b.tag = "Array"
            THEN /\ Len(a.arr) = Len(b.arr)
                 /\ \A k \in 1..Len(a.arr) : LitEq(a.arr[k], b.arr[k])
            ELSE FALSE
      [] a.tag = "Unknown" -> b.tag = "Unknown"

\* impl PartialOrd for Literal: partial_cmp, "None" when there is no order.
\* Two arrays compare as Vec<Literal> does: the first pair of elements that
\* is not Some(Equal) decides (None included), then the lengths.
RECURSIVE PartialCmp(_, _)
RECURSIVE CmpArrFrom(_, _, _)
CmpArrFrom(x, y, k) ==
    IF k > Len(x) \/ k > Len(y) THEN CmpNat(Len(x), Len(y))
    ELSE LET c == PartialCmp(x[k], y[k])
         IN  IF c = "Equal" THEN CmpArrFrom(x, y, k + 1) ELSE c

\* partial_cmp that takes two Unknown values for equal, as a derived ordering
\* would.
PartialCmpDerived(a, b) ==
    CASE a.tag = "Integer" ->
            IF b.tag = "Integer"
            THEN LET c == CmpS(a.i, b.i)
                 IN  IF c < 0 THEN "Less" ELSE IF c > 0 THEN "Greater" ELSE "Equal"
            ELSE "None"
      [] a.tag = "Pointer" -> IF b.tag = "Pointer" THEN CmpPointer(a, b) ELSE "None"
      [] a.tag = "String"  -> IF b.tag = "String" THEN CmpStrFrom(a.s, b.s, 1) ELSE "None"
      [] a.tag = "Array"   -> IF b.tag = "Array" THEN CmpArrFrom(a.arr, b.arr, 1) ELSE "None"
      [] a.tag = "Unknown" -> IF b.tag = "Unknown" THEN "Equal" ELSE "None"

PartialCmp(a, b) ==
    CASE a.tag = "Integer" ->
            IF b.tag = "Integer"
            THEN LET c == CmpS(a.i, b.i)
                 IN  IF c < 0 THEN "Less" ELSE IF c > 0 THEN "Greater" ELSE "Equal"
            ELSE "None"
      [] a.tag = "Pointer" -> IF b.tag = "Pointer" THEN CmpPointer(a, b) ELSE "None"
      [] a.tag = "String"  -> IF b.tag = "String" THEN CmpStrFrom(a.s, b.s, 1) ELSE "None"
      [] a.tag = "Array"   -> IF b.tag = "Array" THEN CmpArrFrom(a.arr, b.arr, 1) ELSE "None"
      [] a.tag = "Unknown" -> "None"

\* a < b and a > b (PartialOrd::lt, PartialOrd::gt).
LitLt(a, b) == PartialCmp(a, b) = "Less"

LitGt(a, b) == PartialCmp(a, b) = "Greater"

(***************************************************************************)
(* Display for Literal (to_string) and the derived Debug it uses.          *)
(***************************************************************************)

\* The bytes of x (unsigned, lowest first) divided by the small d, highest
\* quotient byte first; rem is the remainder carried from the bytes above k.
RECURSIVE DivSmallFrom(_, _, _, _)
DivSmallFrom(x, k, rem, d) ==
    IF k = 0 THEN <<>>
    ELSE LET cur == rem * ByteBase + x[k]
         IN  <<cur \div d>> \o DivSmallFrom(x, k - 1, cur % d, d)

RECURSIVE ModSmallFrom(_, _, _, _)
ModSmallFrom(x, k, rem, d) ==
    IF k = 0 THEN rem ELSE ModSmallFrom(x, k - 1, (rem * ByteBase + x[k]) % d, d)

\* ASCII "0".
AsciiZero == 48

\* The decimal digits of the unsigned x, none for zero.
RECURSIVE DecDigits(_)
DecDigits(x) ==
    IF x = ZeroW(Len(x)) THEN <<>>
    ELSE DecDigits(Reverse(DivSmallFrom(x, Len(x), 0, 10)))
            \o <<AsciiZero + ModSmallFrom(x, Len(x), 0, 10)>>

\* write!(f, "{}", i) for an i64; "-" is 45.
DisplayI64(i) ==
    LET w == Widen(i)
    IN  IF w = ZeroW(Len(w)) THEN <<AsciiZero>>
        ELSE IF IsNeg(w) THEN <<45>> \o DecDigits(NegW(w))
        ELSE DecDigits(w)

\* write!(f, "{}", n) for a usize.
RECURSIVE DecNat(_)
DecNat(n) ==
    IF n < 10 THEN <<AsciiZero + n>> ELSE DecNat(n \div 10) \o <<AsciiZero + (n % 10)>>

\* {:?} of struct Pointer: Pointer { address: A, offset: O }.
DebugPointer(address, offset) ==
    <<80, 111, 105, 110, 116, 101, 114, 32, 123, 32, 97, 100, 100, 114, 101, 115, 115, 58, 32>> \o DecNat(address) \o <<44, 32, 111, 102, 102, 115, 101, 116, 58, 32>> \o DecNat(offset) \o <<32, 125>>

\* The char whose UTF-8 sequence of n bytes starts at position k of s.
CharAt(s, k, n) ==
    CASE n = 1 -> s[k]
      [] n = 2 -> (s[k] % 32) * 64 + (s[k + 1] % 64)
      [] n = 3 -> (s[k] % 16) * 4096 + (s[k + 1] % 64) * 64 + (s[k + 2] % 64)
      [] n = 4 -> (s[k] % 8) * 262144 + (s[k + 1] % 64) * 4096
                     + (s[k + 2] % 64) * 64 + (s[k + 3] % 64)

\* The tables char::escape_debug looks a char up in (Grapheme_Extend, and not
\* printable: the categories Cc, Cf, Cs, Co, Cn, Zl, Zp, and Zs but for the
\* space) are those of the toolchain that builds the program, not of the
\* repository.  A toolchain is given by what its tables say of the chars
\* beyond ASCII that the strings explored may hold: TRUE for a char it writes
\* as \u{..}.  The three here carry Unicode 14.0, 15.0 and 17.0.  They agree
\* on U+00A0, U+00AD, U+0301, U+200B, U+D7FF, U+E000 and U+10FFFF (escaped)
\* and on U+00E9, U+07FF, U+0800, U+20AC and U+1F600 (not escaped).  U+088F
\* (2191) and U+0C5C (3164) are assigned in 17.0, U+1FAE8 (129768) since
\* 15.0 and U+1FAE9 (129769) since 16.0, and written as they are from then
\* on; U+0CC0 (3264) and U+0CC7 (3271) extend a grapheme in 17.0 only.
Toolchains ==
    LET escaped == {160, 173, 769, 8203, 55295, 57344, 1114111}
        plain == {233, 2047, 2048, 8364, 128512}
        moving == {2191, 3164, 3264, 3271, 129768, 129769}
    IN  {[c \in escaped \cup plain \cup moving |-> c \in escaped \cup m] :
            m \in {{2191, 3164, 129768, 129769}, {2191, 3164, 129769}, {3264, 3271}}}

\* The toolchain carrying Unicode 17.0.
Unicode17 == CHOOSE u \in Toolchains : u[3264]

\* {:x} of a number: lower-case hexadecimal digits ("0" is 48, "a" is 97), no
\* leading zero.
RECURSIVE HexDigits(_)
HexDigits(n) ==
    LET d == n % 16
        digit == IF d < 10 THEN 48 + d ELSE 97 + (d - 10)
    IN  IF n < 16 THEN <<digit>> ELSE HexDigits(n \div 16) \o <<digit>>

\* char::escape_debug as str's Debug applies it to the char c, whose UTF-8
\* bytes are raw, in a build by the toolchain u: \0, \t, \r, \n, \\ and \" by
\* name, the double quote but not the single one, \u{..} for the chars the
\* toolchain's tables hold, the char itself otherwise.  Of the ASCII chars
\* every toolchain's tables hold the controls, below the space and U+007F.
EscapeDebug(c, raw, u) ==
    CASE c = 0  -> <<92, 48>>
      [] c = 9  -> <<92, 116>>
      [] c = 13 -> <<92, 114>>
      [] c = 10 -> <<92, 110>>
      [] c = 92 -> <<92, 92>>
      [] c = 34 -> <<92, 34>>
      [] OTHER  ->
            IF (IF c < 128 THEN c < 32 \/ c = 127 ELSE u[c])
            THEN <<92, 117, 123>> \o HexDigits(c) \o <<125>>
            ELSE raw

\* {:?} of a str from its byte k on, without the quotes around it.  n is the
\* length of the UTF-8 sequence that starts at k (a String is valid UTF-8, so
\* s[k] is no continuation byte).
RECURSIVE EscapeFrom(_, _, _)
EscapeFrom(s, k, u) ==
    IF k > Len(s) THEN <<>>
    ELSE LET n == IF s[k] < 192 THEN 1 ELSE IF s[k] < 224 THEN 2
                  ELSE IF s[k] < 240 THEN 3 ELSE 4
         IN  EscapeDebug(CharAt(s, k, n), SubSeq(s, k, k + n - 1), u) \o EscapeFrom(s, k + n, u)

DebugStr(s, u) == <<34>> \o EscapeFrom(s, 1, u) \o <<34>>

\* #[derive(Debug)] on Literal, and {:?} of a Vec<Literal>.
RECURSIVE DebugLit(_, _)
RECURSIVE DebugArrFrom(_, _, _)
DebugArrFrom(arr, k, u) ==
    IF k > Len(arr) THEN <<>>
    ELSE (IF k > 1 THEN <<44, 32>> ELSE <<>>) \o DebugLit(arr[k], u) \o DebugArrFrom(arr, k + 1, u)

DebugLit(v, u) ==
    CASE v.tag = "Integer" -> <<73, 110, 116, 101, 103, 101, 114, 40>> \o DisplayI64(v.i) \o <<41>>
      [] v.tag = "String"  -> <<83, 116, 114, 105, 110, 103, 40>> \o DebugStr(v.s, u) \o <<41>>
      [] v.tag = "Pointer" -> <<80, 111, 105, 110, 116, 101, 114, 40>> \o DebugPointer(v.address, v.offset) \o <<41>>
      [] v.tag = "Array"   -> <<65, 114, 114, 97, 121, 40>> \o <<91>> \o DebugArrFrom(v.arr, 1, u) \o <<93, 41>>
      [] v.tag = "Unknown" -> <<85, 110, 107, 110, 111, 119, 110>>

\* impl Display for Literal: fmt, in a build whose toolchain is given by u.
Display(v, u) ==
    CASE v.tag = "Integer" -> DisplayI64(v.i)
      [] v.tag = "String"  -> v.s
      [] v.tag = "Pointer" -> DebugPointer(v.address, v.offset)
      [] v.tag = "Array"   -> <<91>> \o DebugArrFrom(v.arr, 1, u) \o <<93>>
      [] v.tag = "Unknown" -> <<>>

(***************************************************************************)
(* The interpreter state (struct ForthInterpreter) and what the last       *)
(* operation did.                                                          *)
(***************************************************************************)

VARIABLES
    stack,      \* Stack<Literal>: index 1 is the bottom, the last is the top
    variables,  \* Vec<Variable>: slot k of the code is variables[k + 1]
    lastOp,     \* the operation executed last ("new" after construction)
    result,     \* what it returned: "Ok", "StackUnderflow", "InvalidOperands",
                \* or "Panic" when it did not return (the thread panicked)
    prevStack,  \* the stack that operation started from
    output,     \* the bytes that operation wrote to stdout
    written,    \* per slot, the value last written to it, if any (history)
    steps,      \* number of primitives executed, counted where it is bounded
    text,       \* what the parser made of the line execute_line was given last
    line,       \* the elements of that line not executed yet
    returned,   \* what execute_line returned last; "Idle" before the first
                \* call, "Running" from a call to its return
    lineStart,  \* the stack that call started from
    unicode     \* the toolchain that built the program: what the tables of
                \* char::escape_debug say of each char

vars ==
    <<stack, variables, lastOp, result, prevStack, output, written, steps,
      text, line, returned, lineStart, unicode>>

\* The parser's answer to a line: the elements it parsed, or its rejection.
Parsed(elements) == [ok |-> TRUE, elements |-> elements]

Rejected == [ok |-> FALSE, elements |-> <<>>]

\* No line is in execution and none has been.
NoLine ==
    /\ text = Parsed(<<>>)
    /\ line = <<>>
    /\ returned = "Idle"
    /\ lineStart = <<>>

\* Option<T>.
None == <<>>

Some(v) == <<v>>

\* struct Variable { name, value }.
Variable(name, value) == [name |-> name, value |-> value]

\* ForthInterpreter::new.
New ==
    /\ stack = <<>>
    /\ variables = <<>>
    /\ lastOp = "new"
    /\ result = "Ok"
    /\ prevStack = <<>>
    /\ output = <<>>
    /\ written = <<>>
    /\ steps = 0
    /\ NoLine

\* A panic unwinds out of the interpreter: nothing runs after it.
Alive == result # "Panic"

\* The stack after Stack::pop, and the element Stack::last names.
Pop(st) == SubSeq(st, 1, Len(st) - 1)

Top(st) == st[Len(st)]

\* get_unary_operand: the operand and the stack left, or StackUnderflow.
get_unary_operand(st) ==
    IF Len(st) = 0 THEN [res |-> "StackUnderflow", stack |-> st]
    ELSE [res |-> "Ok", a |-> Top(st), stack |-> Pop(st)]

\* get_binary_operands with the two pops bound the other way round.
get_binary_operands_swapped(st) ==
    IF Len(st) = 0 THEN [res |-> "StackUnderflow", stack |-> st]
    ELSE IF Len(st) = 1 THEN [res |-> "StackUnderflow", stack |-> Pop(st)]
    ELSE [res |-> "Ok", a |-> Top(st), b |-> st[Len(st) - 1], stack |-> Pop(Pop(st))]

\* get_binary_operands that fills a missing second operand with the default
\* literal instead of failing.
get_binary_operands_default(st) ==
    IF Len(st) = 0 THEN [res |-> "StackUnderflow", stack |-> st]
    ELSE IF Len(st) = 1 THEN [res |-> "Ok", a |-> Unknown, b |-> Top(st), stack |-> Pop(st)]
    ELSE [res |-> "Ok", a |-> st[Len(st) - 1], b |-> Top(st), stack |-> Pop(Pop(st))]

\* get_binary_operands that puts the first operand back when the second is
\* missing.
get_binary_operands_restoring(st) ==
    IF Len(st) < 2 THEN [res |-> "StackUnderflow", stack |-> st]
    ELSE [res |-> "Ok", a |-> st[Len(st) - 1], b |-> Top(st), stack |-> Pop(Pop(st))]

\* get_binary_operands: b is popped first, then a; the first pop is not undone
\* when the second finds the stack empty.
get_binary_operands(st) ==
    IF Len(st) = 0 THEN [res |-> "StackUnderflow", stack |-> st]
    ELSE IF Len(st) = 1 THEN [res |-> "StackUnderflow", stack |-> Pop(st)]
    ELSE [res |-> "Ok", a |-> st[Len(st) - 1], b |-> Top(st), stack |-> Pop(Pop(st))]

\* get_last_literal / Stack::last.
get_last_literal(st) ==
    IF Len(st) = 0 THEN [res |-> "StackUnderflow"] ELSE [res |-> "Ok", a |-> Top(st)]

\* The operation op ends with res, the stack st and the printed bytes out; the
\* variable store is as it was.
Done(op, res, st, out) ==
    /\ lastOp' = op
    /\ result' = res
    /\ prevStack' = stack
    /\ stack' = st
    /\ output' = out
    /\ UNCHANGED <<variables, written, unicode>>

\* The same for an operation on the variable store.
DoneStore(op, res, st, vs, wr) ==
    /\ lastOp' = op
    /\ result' = res
    /\ prevStack' = stack
    /\ stack' = st
    /\ output' = <<>>
    /\ variables' = vs
    /\ written' = wr
    /\ UNCHANGED unicode

(***************************************************************************)
(* Arithmetic primitives.  a + b, a - b and a * b on i64 panic on overflow *)
(* when the build has overflow checks (debug) and wrap when it has not     *)
(* (release): both outcomes are allowed.  a / b panics for b = 0 and for   *)
(* the one overflowing quotient in every build.                            *)
(***************************************************************************)

\* The exact results, on WideBytes bytes.
ExactAdd(a, b) == AddW(Widen(a), Widen(b))

ExactSub(a, b) == SubW(Widen(a), Widen(b))

ExactMul(a, b) == MulW(Widen(a), Widen(b))

\* A quotient rounded toward minus infinity instead of toward zero.
ExactDivFloor(a, b) ==
    LET q == TruncDivW(a, b)
        rem == SubW(Widen(a), MulW(q, Widen(b)))
    IN  IF rem # ZeroW(WideBytes) /\ IsNeg(rem) # IsNeg(b)
        THEN SubW(q, Widen(FromInt(1)))
        ELSE q

ExactDiv(a, b) == TruncDivW(a, b)

\* The tail of add, sub and mul once the operands r are taken: w is the exact
\* result of the operator on r.a.i and r.b.i.
PushChecked(op, r, w) ==
    IF Fits64(w)
    THEN Done(op, "Ok", Append(r.stack, Integer(Narrow(w))), <<>>)
    ELSE \/ Done(op, "Panic", r.stack, <<>>)
         \/ Done(op, "Ok", Append(r.stack, Integer(Narrow(w))), <<>>)

BothIntegers(r) == r.a.tag = "Integer" /\ r.b.tag = "Integer"

\* fn add.
add ==
    /\ Alive
    /\ LET r == get_binary_operands(stack)
       IN  IF r.res # "Ok" THEN Done("+", r.res, r.stack, <<>>)
           ELSE IF BothIntegers(r) THEN PushChecked("+", r, ExactAdd(r.a.i, r.b.i))
           ELSE Done("+", "InvalidOperands", r.stack, <<>>)

\* fn sub.
sub ==
    /\ Alive
    /\ LET r == get_binary_operands(stack)
       IN  IF r.res # "Ok" THEN Done("-", r.res, r.stack, <<>>)
           ELSE IF BothIntegers(r) THEN PushChecked("-", r, ExactSub(r.a.i, r.b.i))
           ELSE Done("-", "InvalidOperands", r.stack, <<>>)

\* fn mul.
mul ==
    /\ Alive
    /\ LET r == get_binary_operands(stack)
       IN  IF r.res # "Ok" THEN Done("*", r.res, r.stack, <<>>)
           ELSE IF BothIntegers(r) THEN PushChecked("*", r, ExactMul(r.a.i, r.b.i))
           ELSE Done("*", "InvalidOperands", r.stack, <<>>)

\* fn div: a / b panics when b is zero ("attempt to divide by zero") and when
\* the quotient overflows ("attempt to divide with overflow").
div ==
    /\ Alive
    /\ LET r == get_binary_operands(stack)
       IN  IF r.res # "Ok" THEN Done("/", r.res, r.stack, <<>>)
           ELSE IF BothIntegers(r)
           THEN IF r.b.i = ZeroW(IntBytes) THEN Done("/", "Panic", r.stack, <<>>)
                ELSE LET w == ExactDiv(r.a.i, r.b.i)
                     IN  IF Fits64(w)
                         THEN Done("/", "Ok", Append(r.stack, Integer(Narrow(w))), <<>>)
                         ELSE Done("/", "Panic", r.stack, <<>>)
           ELSE Done("/", "InvalidOperands", r.stack, <<>>)

(***************************************************************************)
(* Stack primitives.                                                       *)
(***************************************************************************)

\* Literal::execute: a literal token pushes a clone of itself.
PushLiteral(v) ==
    /\ Alive
    /\ Done("push", "Ok", Append(stack, v), <<>>)

\* fn dup.
dup ==
    /\ Alive
    /\ LET r == get_last_literal(stack)
       IN  IF r.res # "Ok" THEN Done("dup", r.res, stack, <<>>)
           ELSE Done("dup", "Ok", Append(stack, r.a), <<>>)

\* fn drop.
drop ==
    /\ Alive
    /\ IF Len(stack) = 0 THEN Done("drop", "StackUnderflow", stack, <<>>)
       ELSE Done("drop", "Ok", Pop(stack), <<>>)

\* fn swap.
swap ==
    /\ Alive
    /\ LET r == get_binary_operands(stack)
       IN  IF r.res # "Ok" THEN Done("swap", r.res, r.stack, <<>>)
           ELSE Done("swap", "Ok", Append(Append(r.stack, r.b), r.a), <<>>)

\* fn over.
over ==
    /\ Alive
    /\ LET length == Len(stack)
       IN  IF length >= 2
           THEN Done("over", "Ok", Append(stack, stack[(length - 2) + 1]), <<>>)
           ELSE Done("over", "StackUnderflow", stack, <<>>)

\* Stack::remove(index), index counted from 0 at the bottom: the element and
\* the stack without it.
Remove(st, index) ==
    [element |-> st[index + 1],
     stack   |-> SubSeq(st, 1, index) \o SubSeq(st, index + 2, Len(st))]

\* rot that takes the element one place too high.
rot_off_by_one ==
    /\ Alive
    /\ LET length == Len(stack)
       IN  IF length >= 3
           THEN LET rm == Remove(stack, length - 2)
                IN  Done("rot", "Ok", Append(rm.stack, rm.element), <<>>)
           ELSE Done("rot", "StackUnderflow", stack, <<>>)

\* fn rot.
rot ==
    /\ Alive
    /\ LET length == Len(stack)
       IN  IF length >= 3
           THEN LET rm == Remove(stack, length - 3)
                IN  Done("rot", "Ok", Append(rm.stack, rm.element), <<>>)
           ELSE Done("rot", "StackUnderflow", stack, <<>>)

(***************************************************************************)
(* Output primitives.                                                      *)
(***************************************************************************)

\* i as u32: the low four bytes of the i64.
AsU32(i) == SubSeq(i, 1, 4)

\* First code point of the surrogate range, and the first after it.
SurrogateFirst == 55296

SurrogateEnd == 57344

\* char::MAX as a number.
CharMax == 1114111

\* A u32 whose top byte is zero, as a number (it is below 2^24).
Low24(u) == u[1] + ByteBase * u[2] + ByteBase * ByteBase * u[3]

\* char::from_u32(u): Some(scalar value) or None.  A u32 with a non-zero top
\* byte is above char::MAX.
from_u32(u) ==
    IF u[4] # 0 THEN None
    ELSE LET c == Low24(u)
         IN  IF c < SurrogateFirst \/ (c >= SurrogateEnd /\ c <= CharMax)
             THEN Some(c) ELSE None

\* The UTF-8 encoding print! writes for the char c.
Utf8(c) ==
    IF c < 128 THEN <<c>>
    ELSE IF c < 2048 THEN <<192 + (c \div 64), 128 + (c % 64)>>
    ELSE IF c < 65536
         THEN <<224 + (c \div 4096), 128 + ((c \div 64) % 64), 128 + (c % 64)>>
    ELSE <<240 + (c \div 262144), 128 + ((c \div 4096) % 64),
           128 + ((c \div 64) % 64), 128 + (c % 64)>>

\* print_top that pops the literal it prints.
print_top_pop ==
    /\ Alive
    /\ LET r == get_unary_operand(stack)
       IN  IF r.res # "Ok" THEN Done(".", r.res, r.stack, <<>>)
           ELSE Done(".", "Ok", r.stack, Display(r.a, unicode))

\* fn print_top ("." in the dictionary).
print_top ==
    /\ Alive
    /\ LET r == get_last_literal(stack)
       IN  IF r.res # "Ok" THEN Done(".", r.res, stack, <<>>)
           ELSE Done(".", "Ok", stack, Display(r.a, unicode))

\* fn emit.
emit ==
    /\ Alive
    /\ LET r == get_last_literal(stack)
       IN  IF r.res # "Ok" THEN Done("emit", r.res, stack, <<>>)
           ELSE IF r.a.tag = "Integer"
           THEN LET c == from_u32(AsU32(r.a.i))
                IN  IF c = None THEN Done("emit", "InvalidOperands", stack, <<>>)
                    ELSE Done("emit", "Ok", stack, Utf8(c[1]))
           ELSE Done("emit", "Ok", stack, <<>>)

\* fn cr.
cr ==
    /\ Alive
    /\ Done("cr", "Ok", stack, <<10>>)

(***************************************************************************)
(* Comparison and logic primitives.                                        *)
(***************************************************************************)

\* A truth literal that encodes true as 1.
TruthOne(c) == IntLit(IF c THEN 1 ELSE 0)

\* ternary!(c, -1, 0) as a Literal::Integer.
Truth(c) == IntLit(IF c THEN -1 ELSE 0)

\* fn equal.
equal ==
    /\ Alive
    /\ LET r == get_binary_operands(stack)
       IN  IF r.res # "Ok" THEN Done("=", r.res, r.stack, <<>>)
           ELSE Done("=", "Ok", Append(r.stack, Truth(LitEq(r.a, r.b))), <<>>)

\* fn less_than.
less_than ==
    /\ Alive
    /\ LET r == get_binary_operands(stack)
       IN  IF r.res # "Ok" THEN Done("<", r.res, r.stack, <<>>)
           ELSE Done("<", "Ok", Append(r.stack, Truth(LitLt(r.a, r.b))), <<>>)

\* fn greater_than.
greater_than ==
    /\ Alive
    /\ LET r == get_binary_operands(stack)
       IN  IF r.res # "Ok" THEN Done(">", r.res, r.stack, <<>>)
           ELSE Done(">", "Ok", Append(r.stack, Truth(LitGt(r.a, r.b))), <<>>)

\* a != 0.into().
NonZero(a) == ~LitEq(a, IntLit(0))

\* fn and.
and ==
    /\ Alive
    /\ LET r == get_binary_operands(stack)
       IN  IF r.res # "Ok" THEN Done("and", r.res, r.stack, <<>>)
           ELSE Done("and", "Ok",
                     Append(r.stack, Truth(NonZero(r.a) /\ NonZero(r.b))), <<>>)

\* fn or.
or ==
    /\ Alive
    /\ LET r == get_binary_operands(stack)
       IN  IF r.res # "Ok" THEN Done("or", r.res, r.stack, <<>>)
           ELSE Done("or", "Ok",
                     Append(r.stack, Truth(NonZero(r.a) \/ NonZero(r.b))), <<>>)

\* fn invert.
invert ==
    /\ Alive
    /\ LET r == get_unary_operand(stack)
       IN  IF r.res # "Ok" THEN Done("invert", r.res, r.stack, <<>>)
           ELSE Done("invert", "Ok", Append(r.stack, Truth(LitEq(r.a, IntLit(0)))), <<>>)

\* Literal::eq and Literal::partial_cmp applied to the two literals on top of
\* the stack, a below b; the answer is recorded in result and nothing moves.
eq ==
    /\ Alive
    /\ Len(stack) >= 2
    /\ Done("eq", IF LitEq(stack[Len(stack) - 1], Top(stack)) THEN "true" ELSE "false",
            stack, <<>>)

partial_cmp ==
    /\ Alive
    /\ Len(stack) >= 2
    /\ Done("partial_cmp", PartialCmp(stack[Len(stack) - 1], Top(stack)), stack, <<>>)

(***************************************************************************)
(* The variable store.                                                     *)
(***************************************************************************)

\* Position (from 0) of the first variable named name, as the iterator
\* position() finds it from slot k on; None when there is none.
RECURSIVE PositionFrom(_, _, _)
PositionFrom(vs, name, k) ==
    IF k >= Len(vs) THEN None
    ELSE IF vs[k + 1].name = name THEN Some(k)
    ELSE PositionFrom(vs, name, k + 1)

\* fn get_variable_id.
get_variable_id(vs, name) == PositionFrom(vs, name, 0)

\* fn contains_variable.
contains_variable(vs, name) == \E k \in 1..Len(vs) : vs[k].name = name

\* A store that ignores the index and writes the first slot.
SetSlotFirst(vs, idx, value) == [vs EXCEPT ![1].value = Some(value)]

\* self.variables[idx].value = Some(value), idx in range.
SetSlot(vs, idx, value) == [vs EXCEPT ![idx + 1].value = Some(value)]

\* The history of writes after slot idx was given value.
NoteWrite(wr, idx, value) == [wr EXCEPT ![idx + 1] = Some(value)]

\* A declaration that puts the new variable in front of the others.
variable_in_front ==
    /\ Alive
    /\ LET r == get_unary_operand(stack)
       IN  IF r.res # "Ok" THEN DoneStore("variable", r.res, r.stack, variables, written)
           ELSE DoneStore("variable", "Ok", r.stack,
                          <<Variable(Display(r.a, unicode), None)>> \o variables,
                          <<None>> \o written)

\* fn variable: the name is the display form of the popped literal.
variable ==
    /\ Alive
    /\ LET r == get_unary_operand(stack)
       IN  IF r.res # "Ok" THEN DoneStore("variable", r.res, r.stack, variables, written)
           ELSE DoneStore("variable", "Ok", r.stack,
                          Append(variables, Variable(Display(r.a, unicode), None)),
                          Append(written, None))

\* fn set_variable(name, value).
set_variable(name, value) ==
    /\ Alive
    /\ LET id == get_variable_id(variables, name)
       IN  IF id = None
           THEN DoneStore("set", "Ok", stack,
                          Append(variables, Variable(name, Some(value))),
                          Append(written, Some(value)))
           ELSE DoneStore("set", "Ok", stack,
                          SetSlot(variables, id[1], value),
                          NoteWrite(written, id[1], value))

\* self.variables[idx] for a Pointer idx: the slot indexed is the sum of its
\* address and its offset.
Index(p) == p.address + p.offset

\* fn store_variable ("!"): indexing a slot that does not exist panics.
store_variable ==
    /\ Alive
    /\ LET r == get_binary_operands(stack)
       IN  IF r.res # "Ok" THEN DoneStore("!", r.res, r.stack, variables, written)
           ELSE IF r.b.tag = "Pointer"
           THEN IF Index(r.b) < Len(variables)
                THEN DoneStore("!", "Ok", r.stack,
                               SetSlot(variables, Index(r.b), r.a),
                               NoteWrite(written, Index(r.b), r.a))
                ELSE DoneStore("!", "Panic", r.stack, variables, written)
           ELSE DoneStore("!", "Ok", r.stack, variables, written)

\* self.variables[idx].value.as_ref().unwrap_or(&0i64.into()).clone().
SlotValue(vs, idx) ==
    IF vs[idx + 1].value = None THEN IntLit(0) ELSE vs[idx + 1].value[1]

\* fetch_variable that reads the slot after the one addressed.
fetch_variable_next ==
    /\ Alive
    /\ LET r == get_unary_operand(stack)
       IN  IF r.res # "Ok" THEN DoneStore("@", r.res, r.stack, variables, written)
           ELSE IF r.a.tag = "Pointer"
           THEN IF Index(r.a) + 1 < Len(variables)
                THEN DoneStore("@", "Ok",
                               Append(r.stack, SlotValue(variables, Index(r.a) + 1)),
                               variables, written)
                ELSE DoneStore("@", "Panic", r.stack, variables, written)
           ELSE DoneStore("@", "Ok", r.stack, variables, written)

\* fn fetch_variable ("@").
fetch_variable ==
    /\ Alive
    /\ LET r == get_unary_operand(stack)
       IN  IF r.res # "Ok" THEN DoneStore("@", r.res, r.stack, variables, written)
           ELSE IF r.a.tag = "Pointer"
           THEN IF Index(r.a) < Len(variables)
                THEN DoneStore("@", "Ok", Append(r.stack, SlotValue(variables, Index(r.a))),
                               variables, written)
                ELSE DoneStore("@", "Panic", r.stack, variables, written)
           ELSE DoneStore("@", "Ok", r.stack, variables, written)

\* A name token that names a declared variable resolves to the pointer literal
\* of its slot (index_of), which is pushed.
PushPointer(name) ==
    /\ Alive
    /\ contains_variable(variables, name)
    /\ Done("pointer", "Ok",
            Append(stack, Pointer(get_variable_id(variables, name)[1], 0)), <<>>)

(***************************************************************************)
(* Line execution.  execute_line hands the text to the parser, builds the  *)
(* Line and executes it; Line::execute dispatches the elements of the line *)
(* in order and stops at the first that fails.  The interpreter is single- *)
(* threaded: from the call to its return nothing else runs.                *)
(***************************************************************************)

\* The elements of a parsed line: a literal token, a name token, and the call
\* of fn variable that ends a declaration (after the literal of the name).
Lit(v) == [kind |-> "literal", value |-> v]

Name(n) == [kind |-> "name", name |-> n]

Declaring == [kind |-> "variable"]

\* native_words: the name of each primitive (its UTF-8 bytes) and its WordFn.
native_words ==
    (<<43>> :> "+") @@ (<<45>> :> "-") @@ (<<42>> :> "*") @@ (<<47>> :> "/")
    @@ (<<100, 117, 112>> :> "dup") @@ (<<100, 114, 111, 112>> :> "drop")
    @@ (<<115, 119, 97, 112>> :> "swap") @@ (<<111, 118, 101, 114>> :> "over")
    @@ (<<114, 111, 116>> :> "rot") @@ (<<46>> :> ".")
    @@ (<<101, 109, 105, 116>> :> "emit") @@ (<<99, 114>> :> "cr")
    @@ (<<61>> :> "=") @@ (<<60>> :> "<") @@ (<<62>> :> ">")
    @@ (<<105, 110, 118, 101, 114, 116>> :> "invert")
    @@ (<<97, 110, 100>> :> "and") @@ (<<111, 114>> :> "or")
    @@ (<<33>> :> "!") @@ (<<64>> :> "@")

\* user_words: empty after new, and nothing in lib.rs adds to it.
user_words == {}

\* The call of the WordFn w.
Invoke(w) ==
    CASE w = "+" -> add
      [] w = "-" -> sub
      [] w = "*" -> mul
      [] w = "/" -> div
      [] w = "dup" -> dup
      [] w = "drop" -> drop
      [] w = "swap" -> swap
      [] w = "over" -> over
      [] w = "rot" -> rot
      [] w = "." -> print_top
      [] w = "emit" -> emit
      [] w = "cr" -> cr
      [] w = "=" -> equal
      [] w = "<" -> less_than
      [] w = ">" -> greater_than
      [] w = "invert" -> invert
      [] w = "and" -> and
      [] w = "or" -> or
      [] w = "!" -> store_variable
      [] w = "@" -> fetch_variable

\* The name is that of a word of the dictionary.
IsWord(n) == n \in DOMAIN native_words \/ n \in user_words

\* execute_line up to the execution of the Line: p is the parser's answer to
\* the text.  A rejection is unwrapped: the thread panics.
execute_line(p) ==
    /\ Alive
    /\ returned # "Running"
    /\ text' = p
    /\ lineStart' = stack
    /\ returned' = "Running"
    /\ UNCHANGED steps
    /\ IF p.ok
       THEN /\ Done("execute_line", "Ok", stack, <<>>)
            /\ line' = p.elements
       ELSE /\ Done("execute_line", "Panic", stack, <<>>)
            /\ line' = <<>>

\* One element of the line in execution is dispatched by A; the elements
\* after one that failed are not reached.
Step(A) ==
    /\ returned = "Running"
    /\ result = "Ok"
    /\ line # <<>>
    /\ A
    /\ line' = Tail(line)
    /\ UNCHANGED <<text, returned, lineStart, steps>>

\* A literal token pushes itself.
ExecLiteral == Step(Head(line).kind = "literal" /\ PushLiteral(Head(line).value))

\* A name of the dictionary invokes its primitive.
ExecNative ==
    Step(/\ Head(line).kind = "name"
         /\ Head(line).name \in DOMAIN native_words
         /\ Invoke(native_words[Head(line).name]))

\* The name of a declared variable pushes the pointer literal of its slot.
ExecPointer ==
    Step(/\ Head(line).kind = "name"
         /\ ~IsWord(Head(line).name)
         /\ PushPointer(Head(line).name))

\* Any other name is an undefined word.  Where Line::execute finds that is
\* not in the source: at the dispatch of the name, the elements before it
\* executed (ExecUndefined), or before the first element is dispatched, when
\* it resolves the names of the line (ResolveUndefined).  Both are explored.
ResolveUndefined ==
    /\ returned = "Running"
    /\ result = "Ok"
    /\ line = text.elements
    /\ \E k \in 1..Len(line) :
          /\ line[k].kind = "name"
          /\ ~IsWord(line[k].name)
          /\ ~contains_variable(variables, line[k].name)
    /\ Done("name", "UndefinedWord", stack, <<>>)
    /\ UNCHANGED <<text, line, returned, lineStart, steps>>

ExecUndefined ==
    Step(/\ Head(line).kind = "name"
         /\ ~IsWord(Head(line).name)
         /\ ~contains_variable(variables, Head(line).name)
         /\ Done("name", "UndefinedWord", stack, <<>>))

\* The end of a declaration calls fn variable on the name pushed before it.
ExecDeclare == Step(Head(line).kind = "variable" /\ variable)

\* execute_line that undoes the line's pushes and pops when the line failed.
execute_line_rollback ==
    /\ returned = "Running"
    /\ Alive
    /\ line = <<>> \/ result # "Ok"
    /\ returned' = result
    /\ stack' = IF result = "Ok" THEN stack ELSE lineStart
    /\ UNCHANGED <<variables, lastOp, result, prevStack, output, written,
                   steps, text, line, lineStart, unicode>>

\* execute_line from the end of the Line's execution: line.execute(self)?
\* returns the failure of the element that failed, Ok(()) when none did.
execute_line_return ==
    /\ returned = "Running"
    /\ Alive
    /\ line = <<>> \/ result # "Ok"
    /\ returned' = result
    /\ UNCHANGED <<stack, variables, lastOp, result, prevStack, output, written,
                   steps, text, line, lineStart, unicode>>

(***************************************************************************)
(* Specifications.                                                         *)
(***************************************************************************)

\* "x" and "y".
NameX == <<120>>

NameY == <<121>>

I64Max == <<255, 255, 255, 255, 255, 255, 255, 127>>

I64Min == <<0, 0, 0, 0, 0, 0, 0, 128>>

\* All stacks of at most n literals of the set pool.
StacksOf(pool, n) == UNION {[1..k -> pool] : k \in 0..n}

\* Longest stack an exploration of the primitives starts from.
MaxInit == 2

\* Two variables declared, nothing stored, as after "variable x", "variable y".
TwoDeclared == <<Variable(NameX, None), Variable(NameY, None)>>

\* The interpreter with st on its stack and the variables of TwoDeclared: the
\* state after pushing the literals of st one by one.
Loaded(st) ==
    /\ stack = st
    /\ variables = TwoDeclared
    /\ lastOp = "new"
    /\ result = "Ok"
    /\ prevStack = <<>>
    /\ output = <<>>
    /\ written = <<None, None>>
    /\ steps = 0
    /\ NoLine

(* A session on a fresh interpreter: literal and name tokens, declarations, *)
(* set (of y to 7), the stack shuffles and the store words, in any order.   *)
(* The stack is explored up to MaxStack elements and the store up to        *)
(* MaxVars slots.                                                           *)

MaxStack == 3

MaxVars == 2

\* The literal tokens of a session.
SessionPool == {String(NameX)}

\* An operation whose steps are not counted.
Free(A) == A /\ UNCHANGED steps /\ UNCHANGED <<text, line, returned, lineStart>>

Room == Len(stack) < MaxStack

\* fn variable is no word of the dictionary: its caller hands it the name token
\* of a declaration, a String, on top of the stack (or nothing at all).
NameOnTop == IF Len(stack) = 0 THEN TRUE ELSE Top(stack).tag = "String"

Init == New /\ unicode = Unicode17

Next ==
    \/ \E v \in SessionPool : Free(Room /\ PushLiteral(v))
    \/ \E k \in 1..Len(variables) : Free(Room /\ PushPointer(variables[k].name))
    \/ Free(Len(variables) < MaxVars /\ NameOnTop /\ variable)
    \/ \E name \in {NameY} :
          Free((IF contains_variable(variables, name) THEN TRUE ELSE Len(variables) < MaxVars)
               /\ set_variable(name, IntLit(7)))
    \/ Free(store_variable)
    \/ Free(fetch_variable)
    \/ Free(Room /\ dup)
    \/ Free(drop)
    \/ Free(swap)
    \/ Free(Room /\ over)
    \/ Free(rot)

Spec == Init /\ [][Next]_vars

(* The arithmetic words on every short stack of ArithPool. *)

\* Longest stack the arithmetic words start from: two operands and one
\* element below them.
MaxArith == 3

ArithPool ==
    {IntLit(0), IntLit(-1), IntLit(3), IntLit(-7),
     Integer(I64Max), Integer(I64Min), String(NameX)}

InitArith == \E st \in StacksOf(ArithPool, MaxArith) : Loaded(st) /\ unicode = Unicode17

NextArith ==
    \/ Free(add)
    \/ Free(sub)
    \/ Free(mul)
    \/ Free(div)

SpecArith == InitArith /\ [][NextArith]_vars

(* The comparison words on every short stack of CmpPool, which holds every  *)
(* variant of Literal.                                                      *)

CmpPool ==
    {IntLit(0), IntLit(-1), IntLit(5), Integer(I64Min),
     String(NameX), String(NameY), String(NameX \o NameY),
     Pointer(0, 0), Pointer(1, 0), Pointer(0, 1),
     Array(<<>>), Array(<<IntLit(1)>>), Array(<<IntLit(1), Unknown>>),
     Unknown}

InitCmp == \E st \in StacksOf(CmpPool, MaxInit) : Loaded(st) /\ unicode = Unicode17

NextCmp ==
    \/ Free(equal)
    \/ Free(less_than)
    \/ Free(greater_than)

SpecCmp == InitCmp /\ [][NextCmp]_vars

(* The output words on every short stack of EmitPool: code points at the    *)
(* edges of the scalar value ranges, of each UTF-8 length, integers outside *)
(* the u32 range, and arrays of a string the toolchains differ on.          *)

\* 2^32 + 65 and -(2^32) + 65: the low four bytes are those of 65 ("A").
TwoTo32Plus65 == <<65, 0, 0, 0, 1, 0, 0, 0>>

Minus2To32Plus65 == <<65, 0, 0, 0, 255, 255, 255, 255>>

EmitPool ==
    {IntLit(65), IntLit(0), IntLit(-1), IntLit(233), IntLit(8364), IntLit(128512),
     IntLit(SurrogateFirst - 1), IntLit(SurrogateFirst), IntLit(SurrogateEnd - 1),
     IntLit(SurrogateEnd), IntLit(CharMax), IntLit(CharMax + 1),
     Integer(TwoTo32Plus65), Integer(Minus2To32Plus65),
     Integer(I64Max), Integer(I64Min), String(NameX), Pointer(0, 0),
     Array(<<String(<<224, 179, 128>>)>>), Array(<<String(<<240, 159, 171, 168>>)>>)}

InitEmit ==
    \E st \in StacksOf(EmitPool, MaxInit), u \in Toolchains : Loaded(st) /\ unicode = u

NextEmit ==
    \/ Free(emit)
    \/ Free(print_top)
    \/ Free(cr)

SpecEmit == InitEmit /\ [][NextEmit]_vars

(* The stack shuffles on every stack of at most MaxShuffle literals of      *)
(* ShufflePool; dup and over may add one more.                              *)

MaxShuffle == 4

ShufflePool == {IntLit(1), IntLit(2), String(NameX)}

InitShuffle == \E st \in StacksOf(ShufflePool, MaxShuffle) : Loaded(st) /\ unicode = Unicode17

NextShuffle ==
    \/ Free(Len(stack) <= MaxShuffle /\ dup)
    \/ Free(drop)
    \/ Free(swap)
    \/ Free(Len(stack) <= MaxShuffle /\ over)
    \/ Free(rot)

SpecShuffle == InitShuffle /\ [][NextShuffle]_vars

(* Every native primitive of the dictionary, at most MaxSteps of them in a  *)
(* row, from every short stack of PrimPool.                                 *)

MaxSteps == 2

PrimPool ==
    {IntLit(5), IntLit(0), Integer(I64Max), String(NameX), Pointer(0, 0), Pointer(0, 1)}

\* A primitive that counts as a step.
Counted(A) == steps < MaxSteps /\ A /\ steps' = steps + 1 /\ UNCHANGED <<text, line, returned, lineStart>>

InitPrim == \E st \in StacksOf(PrimPool, MaxInit) : Loaded(st) /\ unicode = Unicode17

NextPrim ==
    \/ Counted(add)
    \/ Counted(sub)
    \/ Counted(mul)
    \/ Counted(div)
    \/ Counted(dup)
    \/ Counted(drop)
    \/ Counted(swap)
    \/ Counted(over)
    \/ Counted(rot)
    \/ Counted(print_top)
    \/ Counted(emit)
    \/ Counted(cr)
    \/ Counted(equal)
    \/ Counted(less_than)
    \/ Counted(greater_than)
    \/ Counted(invert)
    \/ Counted(and)
    \/ Counted(or)
    \/ Counted(store_variable)
    \/ Counted(fetch_variable)

SpecPrim == InitPrim /\ [][NextPrim]_vars

(* One line on an interpreter with two variables declared and a short     *)
(* stack: every line of at most MaxLine tokens of TokenPool, and a text the *)
(* parser rejects.                                                          *)

\* "w", a name that is neither declared nor in the dictionary, and "z".
NameW == <<119>>

NameZ == <<122>>

\* Most tokens in a line.
MaxLine == 3

\* The name token of the primitive w.
Word(w) == Name(CHOOSE n \in DOMAIN native_words : native_words[n] = w)

\* What the parser makes of the declaration "variable n".
Declaration(n) == <<Lit(String(n)), Declaring>>

\* The elements of each token: a literal, names of primitives, the name of a
\* declared variable, an unknown name, and a declaration.
TokenPool ==
    {<<Lit(IntLit(5))>>, <<Word("+")>>, <<Word("!")>>, <<Word("@")>>,
     <<Name(NameX)>>, <<Name(NameW)>>, Declaration(NameZ)}

RECURSIVE Flatten(_)
Flatten(ps) == IF ps = <<>> THEN <<>> ELSE Head(ps) \o Flatten(Tail(ps))

\* The lines of at most n tokens of pool.
LinesOf(pool, n) == {Flatten(ps) : ps \in StacksOf(pool, n)}

LinePool == {IntLit(3), String(NameX)}

InitLine == \E st \in StacksOf(LinePool, MaxInit) : Loaded(st) /\ unicode = Unicode17

NextLine ==
    \/ \E l \in LinesOf(TokenPool, MaxLine) : returned = "Idle" /\ execute_line(Parsed(l))
    \/ returned = "Idle" /\ execute_line(Rejected)
    \/ ExecLiteral
    \/ ExecNative
    \/ ExecPointer
    \/ ResolveUndefined
    \/ ExecUndefined
    \/ ExecDeclare
    \/ execute_line_return

SpecLine == InitLine /\ [][NextLine]_vars

(* Lines of a test on a fresh interpreter: declarations of the variable x   *)
(* and stores "v x !" into it, in any order, while the stack has room and   *)
(* the store fewer than MaxVars variables.                                  *)

\* What the parser makes of the line "v n !".
StoreLine(v, n) == <<Lit(v), Name(n), Word("!")>>

\* The values stored.
TestValues == {IntLit(123), Integer(I64Min)}

InitTest == New /\ unicode = Unicode17

NextTest ==
    \/ Len(variables) < MaxVars /\ execute_line(Parsed(Declaration(NameX)))
    \/ \E v \in TestValues : Room /\ execute_line(Parsed(StoreLine(v, NameX)))
    \/ ExecLiteral
    \/ ExecNative
    \/ ExecPointer
    \/ ResolveUndefined
    \/ ExecUndefined
    \/ ExecDeclare
    \/ execute_line_return

SpecTest == InitTest /\ [][NextTest]_vars

(* The logic words on every short stack of LogicPool: the literals a line  *)
(* can put on the stack, Integers, Strings and the pointer of a variable.   *)

LogicPool ==
    {IntLit(0), IntLit(5), IntLit(-1), Integer(I64Min),
     String(NameX), String(<<>>), Pointer(0, 0)}

InitLogic == \E st \in StacksOf(LogicPool, MaxInit) : Loaded(st) /\ unicode = Unicode17

NextLogic ==
    \/ Free(and)
    \/ Free(or)
    \/ Free(invert)

SpecLogic == InitLogic /\ [][NextLogic]_vars

(* Equality and ordering of Literal on every pair of CmpPool. *)

InitLit == \E st \in StacksOf(CmpPool, MaxInit) : Loaded(st) /\ unicode = Unicode17

NextLit ==
    \/ Free(eq)
    \/ Free(partial_cmp)

SpecLit == InitLit /\ [][NextLit]_vars

(***************************************************************************)
(* Properties.  PrevA and PrevB are the operands the last operation found  *)
(* second from the top and on top; PrevBelow(n) is what lay under the top  *)
(* n elements.                                                             *)
(***************************************************************************)

PrevA == prevStack[Len(prevStack) - 1]

PrevB == prevStack[Len(prevStack)]

PrevBelow(n) == SubSeq(prevStack, 1, Len(prevStack) - n)

\* An i64 of one byte of magnitude, and its value as a number.
IsSmall(i) == \A k \in 2..IntBytes : i[k] = (IF IsNeg(i) THEN ByteBase - 1 ELSE 0)

SmallValue(i) == IF IsNeg(i) THEN i[1] - ByteBase ELSE i[1]

Magnitude(n) == IF n < 0 THEN -n ELSE n

\* m / n truncated toward zero, on numbers.
TruncQuotient(m, n) ==
    IF (m < 0) # (n < 0) THEN -(Magnitude(m) \div Magnitude(n))
    ELSE Magnitude(m) \div Magnitude(n)

ArithOps == {"+", "-", "*", "/"}

\* An arithmetic word has run on two Integers, the divisor not zero.
C1Case ==
    /\ lastOp \in ArithOps
    /\ Len(prevStack) >= 2
    /\ PrevA.tag = "Integer"
    /\ PrevB.tag = "Integer"
    /\ (lastOp = "/" => PrevB.i # ZeroW(IntBytes))

\* The exact result of the word on a and b lies in the i64 range.
C1Representable ==
    LET a == PrevA.i
        b == PrevB.i
    IN  CASE lastOp = "+" -> Fits64(AddW(Widen(a), Widen(b)))
          [] lastOp = "-" -> Fits64(SubW(Widen(a), Widen(b)))
          [] lastOp = "*" -> Fits64(MulW(Widen(a), Widen(b)))
          [] lastOp = "/" -> ~(a = I64Min /\ b = FromInt(-1))

\* q is the exact a op b: the sum, difference or product, or the quotient
\* truncated toward zero, that is a = q * b + r with |r| < |b| and r zero or
\* of the sign of a.  On small operands it is also the result on numbers.
C1IsResult(q) ==
    LET a == PrevA.i
        b == PrevB.i
        rem == SubW(Widen(a), MulW(Widen(q), Widen(b)))
    IN  /\ CASE lastOp = "+" -> Widen(q) = AddW(Widen(a), Widen(b))
             [] lastOp = "-" -> Widen(q) = SubW(Widen(a), Widen(b))
             [] lastOp = "*" -> Widen(q) = MulW(Widen(a), Widen(b))
             [] lastOp = "/" ->
                   /\ CmpU(AbsU(rem), AbsU(Widen(b))) < 0
                   /\ (rem = ZeroW(WideBytes) \/ IsNeg(rem) = IsNeg(a))
        /\ (IsSmall(a) /\ IsSmall(b) /\ IsSmall(q)) =>
              SmallValue(q) =
                 CASE lastOp = "+" -> SmallValue(a) + SmallValue(b)
                   [] lastOp = "-" -> SmallValue(a) - SmallValue(b)
                   [] lastOp = "*" -> SmallValue(a) * SmallValue(b)
                   [] lastOp = "/" -> TruncQuotient(SmallValue(a), SmallValue(b))

\* The word succeeded, took its two operands, pushed one Integer that is the
\* exact result and left the rest of the stack alone.
C1Effect ==
    /\ result = "Ok"
    /\ Len(stack) = Len(prevStack) - 1
    /\ SubSeq(stack, 1, Len(stack) - 1) = PrevBelow(2)
    /\ Top(stack).tag = "Integer"
    /\ C1IsResult(Top(stack).i)

\* C1 as stated: + - * / on Integers a (second from top) and b (top), b # 0
\* for /, succeed, replace the two by the one Integer a+b, a-b, a*b or a/b
\* truncated toward zero and leave every element below unchanged.
C1Original == C1Case => C1Effect

\* C1, amended: the same, provided the exact result is representable as a
\* signed 64-bit integer.
C1Theorem == (C1Case /\ C1Representable) => C1Effect

\* -7 / 3 with an element below the operands gave -2 (not the floor, -3).
C1Witness ==
    /\ C1Case
    /\ lastOp = "/"
    /\ Len(prevStack) = 3
    /\ PrevA = IntLit(-7)
    /\ PrevB = IntLit(3)
    /\ stack = <<prevStack[1], IntLit(-2)>>

\* C2: / on Integers a and 0 returns a failure to its caller and pushes no
\* result; the interpreter does not crash.
C2Claim ==
    (/\ lastOp = "/"
     /\ Len(prevStack) >= 2
     /\ PrevA.tag = "Integer"
     /\ PrevB = IntLit(0))
    => /\ result \in {"StackUnderflow", "InvalidOperands"}
       /\ stack = PrevBelow(2)

\* C3: on a stack whose top three elements are a, b, c (bottom to top), swap
\* leaves a, c, b, over leaves a, b, c, b and rot leaves b, c, a; everything
\* below a is unchanged and no value changes.
C3Theorem ==
    (lastOp \in {"swap", "over", "rot"} /\ Len(prevStack) >= 3) =>
        LET n == Len(prevStack)
            a == prevStack[n - 2]
            b == prevStack[n - 1]
            c == prevStack[n]
        IN  /\ result = "Ok"
            /\ stack = PrevBelow(3) \o
                 (CASE lastOp = "swap" -> <<a, c, b>>
                    [] lastOp = "over" -> <<a, b, c, b>>
                    [] lastOp = "rot"  -> <<b, c, a>>)

\* rot has turned three different elements that lay on a fourth.
C3Witness ==
    /\ lastOp = "rot"
    /\ result = "Ok"
    /\ Len(prevStack) = 4
    /\ Cardinality({prevStack[2], prevStack[3], prevStack[4]}) = 3
    /\ stack = <<prevStack[1], prevStack[3], prevStack[4], prevStack[2]>>

CmpOps == {"=", "<", ">"}

\* a < b within one variant, stated on the values: the exact difference of
\* two Integers is negative; a String is a proper prefix of the other or has
\* the smaller byte at the first difference; a Pointer has the smaller
\* address or, at equal addresses, the smaller offset.  Arrays are ordered as
\* partial_cmp orders them; Unknown has no order.
C4Less(a, b) ==
    CASE a.tag = "Integer" -> IsNeg(SubW(Widen(a.i), Widen(b.i)))
      [] a.tag = "String"  ->
            \E k \in 1..(Len(b.s)) :
               /\ SubSeq(a.s, 1, k - 1) = SubSeq(b.s, 1, k - 1)
               /\ k - 1 <= Len(a.s)
               /\ (k > Len(a.s) \/ a.s[k] < b.s[k])
      [] a.tag = "Pointer" ->
            \/ a.address < b.address
            \/ (a.address = b.address /\ a.offset < b.offset)
      [] a.tag = "Array"   -> PartialCmp(a, b) = "Less"
      [] a.tag = "Unknown" -> FALSE

\* What the comparison lastOp says of PrevA and PrevB.
C4Holds ==
    CASE lastOp = "=" -> PrevA = PrevB
      [] lastOp = "<" -> C4Less(PrevA, PrevB)
      [] lastOp = ">" -> C4Less(PrevB, PrevA)

\* C4: on two operands of one variant, a (second from top) and b (top), the
\* words = < > pop both and push the one Integer -1 when a = b, a < b, a > b
\* holds and 0 when it does not; a comparison never pushes anything else.
C4Theorem ==
    /\ (lastOp \in CmpOps /\ Len(prevStack) >= 2 /\ PrevA.tag = PrevB.tag) =>
          /\ result = "Ok"
          /\ stack = Append(PrevBelow(2), IntLit(IF C4Holds THEN -1 ELSE 0))
    /\ (lastOp \in CmpOps /\ result = "Ok") =>
          /\ Len(stack) = Len(prevStack) - 1
          /\ Top(stack) \in {IntLit(-1), IntLit(0)}

\* The least i64 was found less than 5: -1 was pushed.
C4Witness ==
    /\ lastOp = "<"
    /\ Len(prevStack) >= 2
    /\ PrevA = Integer(I64Min)
    /\ PrevB = IntLit(5)
    /\ stack = Append(PrevBelow(2), IntLit(-1))

\* C5: < or > on two operands that have no defined order (operands of
\* different variants, or two Unknown values) fails with InvalidOperands and
\* pushes no truth value: such a comparison is never answered with 0.
C5Claim ==
    (/\ lastOp \in {"<", ">"}
     /\ Len(prevStack) >= 2
     /\ (PrevA.tag # PrevB.tag \/ PrevA.tag = "Unknown"))
    => /\ result = "InvalidOperands"
       /\ stack = PrevBelow(2)

\* C6: a value stored through a pointer with ! is what @ pushes through the
\* same pointer afterwards, whatever was stored to other variables in
\* between; @ on a variable never written pushes Integer 0 and succeeds.
\* (written holds, per slot, the value last written to that slot.)
C6Theorem ==
    (/\ lastOp = "@"
     /\ Len(prevStack) >= 1
     /\ PrevB.tag = "Pointer"
     /\ Index(PrevB) < Len(variables))
    => /\ result = "Ok"
       /\ stack = Append(PrevBelow(1),
                         IF written[Index(PrevB) + 1] = None THEN IntLit(0)
                         ELSE written[Index(PrevB) + 1][1])

\* The first of two variables was fetched after different values had been
\* written to both.
C6Witness ==
    /\ lastOp = "@"
    /\ result = "Ok"
    /\ Len(prevStack) >= 1
    /\ PrevB = Pointer(0, 0)
    /\ Len(written) = 2
    /\ written[1] # None
    /\ written[2] # None
    /\ written[1] # written[2]
    /\ Top(stack) = written[1][1]

\* C7: the slot a variable got at its declaration holds that variable ever
\* after: no step removes, reorders or renumbers a slot, and the index found
\* for a declared name does not change.
C7Theorem ==
    [][/\ Len(variables') >= Len(variables)
       /\ \A k \in 1..Len(variables) :
             /\ variables'[k].name = variables[k].name
             /\ get_variable_id(variables', variables[k].name)
                   = get_variable_id(variables, variables[k].name)]_vars

\* A second variable was declared after the first had been stored to.
C7Witness ==
    /\ lastOp = "variable"
    /\ result = "Ok"
    /\ Len(variables) = 2
    /\ variables[1].value # None
    /\ variables[1].name # variables[2].name

\* Operands each native primitive needs.
Needs ==
    [op \in {"dup", "drop", ".", "emit", "invert", "@"} |-> 1]
    @@ [op \in {"+", "-", "*", "/", "swap", "over", "=", "<", ">", "and", "or", "!"} |-> 2]
    @@ [op \in {"rot"} |-> 3]

\* C8: a native primitive that needs N operands and finds fewer than N on the
\* stack returns StackUnderflow: it does not succeed, fail otherwise or go on
\* with a default value.
C8Theorem ==
    (lastOp \in DOMAIN Needs /\ Len(prevStack) < Needs[lastOp]) => result = "StackUnderflow"

\* rot found two elements, and a word of two operands found one.
C8Witness ==
    /\ result = "StackUnderflow"
    /\ \/ lastOp = "rot" /\ Len(prevStack) = 2
       \/ lastOp = "!" /\ Len(prevStack) = 1

\* C9: a primitive whose operand has the wrong variant returns
\* InvalidOperands: ! and @ when the top of the stack is no Pointer, emit when
\* it is no Integer.
C9Claim ==
    /\ (lastOp = "!" /\ Len(prevStack) >= 2 /\ PrevB.tag # "Pointer")
          => result = "InvalidOperands"
    /\ (lastOp = "@" /\ Len(prevStack) >= 1 /\ PrevB.tag # "Pointer")
          => result = "InvalidOperands"
    /\ (lastOp = "emit" /\ Len(prevStack) >= 1 /\ PrevB.tag # "Integer")
          => result = "InvalidOperands"

\* The i64 is a Unicode scalar value: 0..=0xD7FF or 0xE000..=0x10FFFF.
IsScalarValue(i) ==
    /\ \A k \in 4..IntBytes : i[k] = 0
    /\ \/ Low24(i) < SurrogateFirst
       \/ (Low24(i) >= SurrogateEnd /\ Low24(i) <= CharMax)

\* C10: emit on an Integer i succeeds exactly when i is a Unicode scalar
\* value and returns InvalidOperands for every other i64, the negative ones
\* and those of 2^32 or more included.
C10Claim ==
    (lastOp = "emit" /\ Len(prevStack) >= 1 /\ PrevB.tag = "Integer") =>
        IF IsScalarValue(PrevB.i) THEN result = "Ok" ELSE result = "InvalidOperands"

(***************************************************************************)
(* Properties of line execution.                                           *)
(***************************************************************************)

\* The failures an element of a line returns.
Failures == {"StackUnderflow", "InvalidOperands", "UndefinedWord"}

\* Number of elements of the line dispatched so far.
executed == Len(text.elements) - Len(line)

\* execute_line has returned.
Finished == returned \notin {"Idle", "Running"}

\* C11: once an element of a line has failed, the next thing that happens is
\* the return of that failure from execute_line: no later element of the line
\* is executed (they stay where they were) and the stack and the variable
\* store stay as the failing operation left them, the effects of the earlier
\* elements included.
C11Theorem ==
    [][(returned = "Running" /\ result \in Failures) =>
          /\ returned' = result
          /\ line' = line
          /\ stack' = stack
          /\ variables' = variables]_vars

\* A line failed at its second token or later with a token left, and its
\* stack is not the one it started from.
C11Witness ==
    /\ returned \in Failures
    /\ returned = result
    /\ executed >= 2
    /\ line # <<>>
    /\ stack # lineStart

\* C13: execute_line on a text the parser rejects returns SyntaxError to its
\* caller; it does not crash and leaves the stack as it was.
C13Claim ==
    ~text.ok =>
       /\ returned = "SyntaxError"
       /\ Alive
       /\ stack = lineStart

(***************************************************************************)
(* Properties of the logic words and of the value model.                   *)
(***************************************************************************)

\* The literal is a non-zero Integer.
IsTrue(v) == v.tag = "Integer" /\ v.i # ZeroW(IntBytes)

\* C14: the logic words take a non-zero Integer for true and push -1 or 0:
\* invert replaces the top x by -1 when x is Integer 0 and by 0 otherwise; and
\* pushes -1 exactly when both operands are non-zero Integers; or pushes -1
\* exactly when at least one is; an operand that is no Integer counts for
\* false.
C14Claim ==
    /\ (lastOp = "invert" /\ Len(prevStack) >= 1) =>
          /\ result = "Ok"
          /\ stack = Append(PrevBelow(1), IntLit(IF PrevB = IntLit(0) THEN -1 ELSE 0))
    /\ (lastOp = "and" /\ Len(prevStack) >= 2) =>
          /\ result = "Ok"
          /\ stack = Append(PrevBelow(2),
                            IntLit(IF IsTrue(PrevA) /\ IsTrue(PrevB) THEN -1 ELSE 0))
    /\ (lastOp = "or" /\ Len(prevStack) >= 2) =>
          /\ result = "Ok"
          /\ stack = Append(PrevBelow(2),
                            IntLit(IF IsTrue(PrevA) \/ IsTrue(PrevB) THEN -1 ELSE 0))

\* C15: two literals of different variants are unequal and unordered, in
\* both directions; within a variant a literal equals itself and a == b
\* agrees with b == a; Unknown equals Unknown and is ordered with nothing,
\* itself included.
C15Theorem ==
    /\ (lastOp = "eq" /\ PrevA.tag # PrevB.tag) =>
          /\ result = "false"
          /\ ~LitEq(PrevB, PrevA)
    /\ (lastOp = "partial_cmp" /\ PrevA.tag # PrevB.tag) =>
          /\ result = "None"
          /\ PartialCmp(PrevB, PrevA) = "None"
    /\ (lastOp = "eq" /\ PrevA.tag = PrevB.tag) =>
          /\ PrevA = PrevB => result = "true"
          /\ result = "true" <=> LitEq(PrevB, PrevA)
    /\ (lastOp = "eq" /\ PrevA = Unknown /\ PrevB = Unknown) => result = "true"
    /\ (lastOp = "partial_cmp" /\ (PrevA = Unknown \/ PrevB = Unknown)) => result = "None"

\* Unknown was compared with Unknown and found unordered, although the two
\* are equal.
C15Witness ==
    /\ lastOp = "partial_cmp"
    /\ PrevA = Unknown
    /\ PrevB = Unknown
    /\ result = "None"
    /\ LitEq(PrevA, PrevB)

(***************************************************************************)
(* Properties of the test of the variable store (tests::test_variable).    *)
(***************************************************************************)

\* C16: on a fresh interpreter, after a line that declares the variable x and
\* a line "v x !" that stores an Integer v into it, both lines have succeeded
\* and get_last_literal returns a literal: the stack is not empty after the
\* store.
C16Claim ==
    (/\ Finished
     /\ \E v \in TestValues : text = Parsed(StoreLine(v, NameX))
     /\ Len(variables) = 1
     /\ variables[1].name = NameX
     /\ lineStart = <<>>)
    => /\ returned = "Ok"
       /\ get_last_literal(stack).res = "Ok"

(***************************************************************************)
(* Properties of the output words, of underflow, of division and of the    *)
(* pointers.                                                               *)
(***************************************************************************)

\* C17: the output words only peek: a step that is a successful . or emit, or
\* any cr, leaves the stack (its length and every element) and the variable
\* store exactly as they were; after a successful . or emit there is a
\* literal on top, the one it printed.
C17Theorem ==
    [][/\ ((lastOp' \in {".", "emit"} /\ result' = "Ok") \/ lastOp' = "cr") =>
             /\ stack' = stack
             /\ variables' = variables
       /\ (lastOp' \in {".", "emit"} /\ result' = "Ok") => Len(stack') >= 1]_vars

\* . printed the top of a stack of two and both are still there.
C17Witness ==
    /\ lastOp = "."
    /\ result = "Ok"
    /\ Len(stack) = 2
    /\ stack = prevStack
    /\ output # <<>>

\* The primitives that take their operands through get_binary_operands.
BinaryOps == {"+", "-", "*", "/", "swap", "=", "<", ">", "and", "or", "!"}

\* C18: a primitive that takes two operands through get_binary_operands and
\* finds exactly one element returns StackUnderflow and leaves the stack
\* empty, the one operand consumed; over and rot on a stack too short return
\* StackUnderflow and leave the stack as it was.
C18Theorem ==
    /\ (lastOp \in BinaryOps /\ Len(prevStack) = 1) =>
          /\ result = "StackUnderflow"
          /\ stack = <<>>
    /\ (lastOp = "over" /\ Len(prevStack) < 2) =>
          /\ result = "StackUnderflow"
          /\ stack = prevStack
    /\ (lastOp = "rot" /\ Len(prevStack) < 3) =>
          /\ result = "StackUnderflow"
          /\ stack = prevStack

\* swap found one element and lost it; so the stack is empty.
C18Witness ==
    /\ lastOp = "swap"
    /\ Len(prevStack) = 1
    /\ result = "StackUnderflow"
    /\ stack = <<>>

\* / has run on two Integers, the divisor not zero.
C19Case ==
    /\ lastOp = "/"
    /\ Len(prevStack) >= 2
    /\ PrevA.tag = "Integer"
    /\ PrevB.tag = "Integer"
    /\ PrevB.i # ZeroW(IntBytes)

\* / succeeded and replaced its operands by one Integer of eight bytes, a
\* divided by b truncated toward zero.
C19Effect ==
    /\ result = "Ok"
    /\ Len(stack) = Len(prevStack) - 1
    /\ Top(stack).tag = "Integer"
    /\ Len(Top(stack).i) = IntBytes
    /\ \A k \in 1..IntBytes : Top(stack).i[k] \in 0..(ByteBase - 1)
    /\ C1IsResult(Top(stack).i)

\* C19 as stated: for every pair of i64 operands a and b, b # 0, / succeeds
\* and pushes an Integer within the i64 range equal to a / b truncated toward
\* zero, a = -2^63 and b = -1 included.
C19Original == C19Case => C19Effect

\* C19, amended: the same for every pair except a = -2^63, b = -1, whose
\* quotient 2^63 is no i64.
C19Theorem ==
    (C19Case /\ ~(PrevA.i = I64Min /\ PrevB.i = FromInt(-1))) => C19Effect

\* The greatest i64 divided by -1 gave -(2^63 - 1).
C19Witness ==
    /\ C19Case
    /\ PrevA = Integer(I64Max)
    /\ PrevB = IntLit(-1)
    /\ result = "Ok"
    /\ Top(stack) = Integer(<<1, 0, 0, 0, 0, 0, 0, 128>>)

\* The literal is no Pointer or addresses a slot that exists.
InRange(v) == v.tag = "Pointer" => Index(v) < Len(variables)

\* C20: when pointers come only from resolving the names of declared
\* variables, every Pointer on the stack or stored in a variable addresses a
\* slot that exists, after any declarations, stores, fetches and shuffles,
\* and ! and @ never index a slot that does not exist.
C20Theorem ==
    /\ \A k \in 1..Len(stack) : InRange(stack[k])
    /\ \A k \in 1..Len(variables) :
          variables[k].value # None => InRange(variables[k].value[1])
    /\ lastOp \in {"!", "@"} => result # "Panic"

\* The pointer of the second variable was stored in the first and fetched
\* from it.
C20Witness ==
    /\ lastOp = "@"
    /\ result = "Ok"
    /\ Len(variables) = 2
    /\ PrevB = Pointer(0, 0)
    /\ variables[1].value = Some(Pointer(1, 0))
    /\ Top(stack) = Pointer(1, 0)

====
